---- MODULE Spec2Model ----
(***************************************************************************)
(* Model of the PHPUnit result parsers of vscode-phpunit (parser.ts): the  *)
(* JUnitParser (XML report -> TestCase records), the TeamCityParser        *)
(* (service-message stream -> TestCase records, with one asynchronous      *)
(* line lookup per passed test joined by Promise.all) and the              *)
(* ParserFactory; and of Filesystem.lineAt (Filesystem.ts), which reads    *)
(* one line of a file through a readline interface.                        *)
(*                                                                         *)
(* Strings are sequences of one-character strings, so that split, trim,    *)
(* replace, toLowerCase, indexOf, parseInt and the regular expressions are *)
(* computed as the code computes them.                                     *)
(***************************************************************************)
EXTENDS Integers, Sequences, FiniteSets, TLC

VARIABLES
    jDoc,      \* JUnit: the XML document handed to JUnitParser.parseString
    jOut,      \* JUnit: the promise parseString returned
    os,        \* TeamCity: the host kind read once at load time (line 6)
    tStream,   \* TeamCity: the service messages of the content, tokenized
    tGroups,   \* TeamCity: the groups groupByType handed to convertToTestCase
    tAll,      \* TeamCity: the promise parseString returned (Promise.all)
    tLookup,   \* TeamCity: per group, the promise of lineData.lineNumber
    tElem,     \* TeamCity: per group, the promise group.map produced
    tValues,   \* TeamCity: Promise.all's value slots, filled as elements fulfil
    tSeen,     \* TeamCity: the elements Promise.all has reacted to
    tCalls,    \* TeamCity: per group, how often lineData.lineNumber was called
    tDone,     \* TeamCity: the groups whose lookup settled, in completion order
    fName,     \* ParserFactory: the name handed to create
    fOut,      \* ParserFactory: how the call of create ended
    lLines,    \* lineAt: the lines of the file, as readline cuts them
    lNumber,   \* lineAt: the lineNumber argument
    lCurrent,  \* lineAt: the counter current of the closure
    lFound,    \* lineAt: the flag found of the closure
    lClosed,   \* lineAt: the reader has emitted 'close'
    lNext,     \* lineAt: the number of 'line' events delivered so far
    lPromise,  \* lineAt: the promise lineAt returned
    lSettles   \* lineAt: the calls of resolve and reject, in order

jvars == <<jDoc, jOut>>
fvars == <<fName, fOut>>
lvars == <<lLines, lNumber, lCurrent, lFound, lClosed, lNext, lPromise, lSettles>>
tvars == <<os, tStream, tGroups, tAll, tLookup, tElem, tValues, tSeen, tCalls, tDone>>
vars == <<jvars, tvars, fvars, lvars>>

----------------------------------------------------------------------------
(* Bounds of the explored inputs.                                          *)

MaxKids == 2        \* children of one testsuite element
MaxRoot == 1        \* testsuite children of the root testsuites element
MaxTypeFrags == 2   \* fragments an error node's type attribute is built of
MaxLines == 2       \* lines of a fault node's text
MaxBlocks == 2      \* test blocks of a TeamCity stream

----------------------------------------------------------------------------
(* JavaScript values and string primitives.                                *)

Absent == <<"absent">>          \* an attribute or field the input does not have
Undefined == <<"undefined">>
Null == <<"null">>

Digits == {"0", "1", "2", "3", "4", "5", "6", "7", "8", "9"}
Whitespace == {" ", "\t", "\n", "\r"}

IsDigit(c) == c \in Digits

DigitVal(c) ==
    CASE c = "0" -> 0 [] c = "1" -> 1 [] c = "2" -> 2 [] c = "3" -> 3
      [] c = "4" -> 4 [] c = "5" -> 5 [] c = "6" -> 6 [] c = "7" -> 7
      [] c = "8" -> 8 [] c = "9" -> 9

\* parseInt(s, 10) of a string of decimal digits.
RECURSIVE parseInt(_)
parseInt(s) ==
    IF s = <<>> THEN 0
    ELSE 10 * parseInt(SubSeq(s, 1, Len(s) - 1)) + DigitVal(s[Len(s)])

\* String.prototype.toLowerCase on the letters A-Z.
LowerChar(c) ==
    CASE c = "S" -> "s" [] c = "K" -> "k" [] c = "I" -> "i" [] c = "P" -> "p"
      [] c = "E" -> "e" [] c = "D" -> "d" [] c = "N" -> "n" [] c = "C" -> "c"
      [] c = "O" -> "o" [] c = "M" -> "m" [] c = "L" -> "l" [] c = "T" -> "t"
      [] c = "F" -> "f" [] c = "A" -> "a" [] c = "R" -> "r" [] c = "X" -> "x"
      [] c = "B" -> "b" [] c = "G" -> "g" [] c = "H" -> "h" [] c = "J" -> "j"
      [] c = "Q" -> "q" [] c = "U" -> "u" [] c = "V" -> "v" [] c = "W" -> "w"
      [] c = "Y" -> "y" [] c = "Z" -> "z"
      [] OTHER -> c

toLowerCase(s) == [i \in 1..Len(s) |-> LowerChar(s[i])]

\* p occurs in s at position i (1-based).
OccursAt(s, p, i) ==
    /\ i >= 1
    /\ i + Len(p) - 1 <= Len(s)
    /\ \A k \in 1..Len(p) : s[i + k - 1] = p[k]

\* String.prototype.indexOf, 1-based; 0 when p does not occur (JS: -1).
indexOf(s, p) ==
    LET hits == {i \in 1..(Len(s) + 1) : OccursAt(s, p, i)}
    IN IF hits = {} THEN 0 ELSE CHOOSE i \in hits : \A j \in hits : i <= j

\* String.prototype.replace(p, r) with a string pattern: the first occurrence.
replaceFirst(s, p, r) ==
    LET i == indexOf(s, p)
    IN IF i = 0 THEN s
       ELSE SubSeq(s, 1, i - 1) \o r \o SubSeq(s, i + Len(p), Len(s))

\* String.prototype.replace(/p/g, r) with a literal pattern: every occurrence.
RECURSIVE replaceAll(_, _, _)
replaceAll(s, p, r) ==
    LET i == indexOf(s, p)
    IN IF i = 0 \/ p = <<>> THEN s
       ELSE SubSeq(s, 1, i - 1) \o r
            \o replaceAll(SubSeq(s, i + Len(p), Len(s)), p, r)

\* String.prototype.split(sep) with a non-empty string separator.
RECURSIVE split(_, _)
split(s, sep) ==
    LET i == indexOf(s, sep)
    IN IF i = 0 THEN <<s>>
       ELSE <<SubSeq(s, 1, i - 1)>> \o split(SubSeq(s, i + Len(sep), Len(s)), sep)

\* String.prototype.trim.
RECURSIVE trim(_)
trim(s) ==
    IF s = <<>> THEN s
    ELSE IF s[1] \in Whitespace THEN trim(Tail(s))
    ELSE IF s[Len(s)] \in Whitespace THEN trim(SubSeq(s, 1, Len(s) - 1))
    ELSE s

\* concat(...arrays): the arrays joined in order.
RECURSIVE Flatten(_)
Flatten(ss) == IF ss = <<>> THEN <<>> ELSE Head(ss) \o Flatten(Tail(ss))

\* Sequences over S of length at most n.
SeqUpTo(S, n) == UNION {[1..k -> S] : k \in 0..n}

\* /(.*):(\d+)$/.test(line), for a line holding no line terminator.
EndsWithFileLine(line) ==
    \E i \in 1..(Len(line) - 1) :
        /\ line[i] = ":"
        /\ \A k \in (i + 1)..Len(line) : IsDigit(line[k])

\* The position of the colon that /(.*):(\d+)/ matches: the greedy (.*) gives
\* the last colon that a digit follows; 0 when there is none (match is null).
FileLineColon(line) ==
    LET hits == {i \in 1..(Len(line) - 1) : line[i] = ":" /\ IsDigit(line[i + 1])}
    IN IF hits = {} THEN 0 ELSE CHOOSE i \in hits : \A j \in hits : j <= i

\* The end of the greedy digit run (\d+) that starts at position i.
RECURSIVE DigitRunEnd(_, _)
DigitRunEnd(line, i) ==
    IF i < Len(line) /\ IsDigit(line[i + 1]) THEN DigitRunEnd(line, i + 1) ELSE i

\* path.match(/(.*):(\d+)/): the captures [file, line] as strings.
matchFileLine(line) ==
    LET c == FileLineColon(line)
    IN [file |-> SubSeq(line, 1, c - 1),
        line |-> SubSeq(line, c + 1, DigitRunEnd(line, c + 1))]

\* Number -> decimal string, as a template literal prints a non-negative integer.
RECURSIVE toDecimal(_)
toDecimal(n) ==
    LET d == <<"0", "1", "2", "3", "4", "5", "6", "7", "8", "9">>[(n % 10) + 1]
    IN IF n < 10 THEN <<d>> ELSE toDecimal(n \div 10) \o <<d>>

----------------------------------------------------------------------------
(* The Type enumeration (parser.ts lines 8-17); the values are the strings  *)
(* the code compares and searches for.                                      *)

PASSED == <<"p", "a", "s", "s", "e", "d">>
ERROR == <<"e", "r", "r", "o", "r">>
WARNING == <<"w", "a", "r", "n", "i", "n", "g">>
FAILURE == <<"f", "a", "i", "l", "u", "r", "e">>
INCOMPLETE == <<"i", "n", "c", "o", "m", "p", "l", "e", "t", "e">>
SKIPPED == <<"s", "k", "i", "p", "p", "e", "d">>
FAILED == <<"f", "a", "i", "l", "e", "d">>

----------------------------------------------------------------------------
(* JUnitParser.                                                             *)
(* An element of the document is [tag, children] for testsuites/testsuite   *)
(* and, for a testcase, its attributes and its fault children grouped by    *)
(* tag name as xml2js delivers them (an empty sequence: no such child).     *)
(* The attributes of a testcase are NoAttributes when it has none (no $).   *)
(* A fault child is [attrType, text].  attrType is its type attribute;      *)
(* Undefined: the element has attributes but no type ($.type is undefined); *)
(* Absent: the element has no attribute at all, and xml2js delivers it as a *)
(* plain string, an object with neither $ nor _.  text is its text content, *)
(* Absent when it has none (no _).  The class, classname and time fields of *)
(* the records, copied from the attributes, are left out.                   *)

Thrown == [threw |-> TRUE]      \* a TypeError raised while parsing
NoFaultNode == [none |-> TRUE]  \* getFaultNode's null
NoAttributes == [no |-> "$"]    \* testCaseNode.$ of an element without attributes

\* xml2js.parseString: the children of an element grouped by tag name, each
\* group in document order.
RECURSIVE xml2json(_)
xml2json(el) ==
    IF el.tag = "testcase" THEN el
    ELSE LET suites == SelectSeq(el.children, LAMBDA c : c.tag = "testsuite")
             cases == SelectSeq(el.children, LAMBDA c : c.tag = "testcase")
         IN [testsuite |-> [i \in 1..Len(suites) |-> xml2json(suites[i])],
             testcase |-> cases]

\* Mutant of parseErrorType: failed is looked for before skipped and incomplete.
parseErrorTypeFailedFirst(errorNode) ==
    LET errorType == toLowerCase(errorNode.attrType)
    IN IF indexOf(errorType, FAILED) # 0 THEN FAILED
       ELSE IF indexOf(errorType, SKIPPED) # 0 THEN SKIPPED
       ELSE IF indexOf(errorType, INCOMPLETE) # 0 THEN INCOMPLETE
       ELSE ERROR

parseErrorType(errorNode) ==
    LET errorType == toLowerCase(errorNode.attrType)
    IN IF indexOf(errorType, SKIPPED) # 0 THEN SKIPPED
       ELSE IF indexOf(errorType, INCOMPLETE) # 0 THEN INCOMPLETE
       ELSE IF indexOf(errorType, FAILED) # 0 THEN FAILED
       ELSE ERROR

\* Mutant of getFaultNode: the failure child is looked at before the warning.
getFaultNodeFailureFirst(testCaseNode) ==
    IF testCaseNode.error # <<>>
    THEN [type |-> parseErrorType(testCaseNode.error[1]),
          attrType |-> testCaseNode.error[1].attrType,
          text |-> testCaseNode.error[1].text]
    ELSE IF testCaseNode.failure # <<>>
    THEN [type |-> FAILURE,
          attrType |-> testCaseNode.failure[1].attrType,
          text |-> testCaseNode.failure[1].text]
    ELSE IF testCaseNode.warning # <<>>
    THEN [type |-> WARNING,
          attrType |-> testCaseNode.warning[1].attrType,
          text |-> testCaseNode.warning[1].text]
    ELSE IF testCaseNode.skipped # <<>> \/ testCaseNode.incomplete # <<>>
    THEN [type |-> SKIPPED, attrType |-> SKIPPED, text |-> <<>>]
    ELSE NoFaultNode

\* Mutant of getFaultNode: the failure branch keeps the type passed.
getFaultNodeFailurePassed(testCaseNode) ==
    IF testCaseNode.error # <<>>
    THEN [type |-> parseErrorType(testCaseNode.error[1]),
          attrType |-> testCaseNode.error[1].attrType,
          text |-> testCaseNode.error[1].text]
    ELSE IF testCaseNode.warning # <<>>
    THEN [type |-> WARNING,
          attrType |-> testCaseNode.warning[1].attrType,
          text |-> testCaseNode.warning[1].text]
    ELSE IF testCaseNode.failure # <<>>
    THEN [type |-> PASSED,
          attrType |-> testCaseNode.failure[1].attrType,
          text |-> testCaseNode.failure[1].text]
    ELSE IF testCaseNode.skipped # <<>> \/ testCaseNode.incomplete # <<>>
    THEN [type |-> SKIPPED, attrType |-> SKIPPED, text |-> <<>>]
    ELSE NoFaultNode

getFaultNode(testCaseNode) ==
    IF testCaseNode.error # <<>>
    THEN [type |-> parseErrorType(testCaseNode.error[1]),
          attrType |-> testCaseNode.error[1].attrType,
          text |-> testCaseNode.error[1].text]
    ELSE IF testCaseNode.warning # <<>>
    THEN [type |-> WARNING,
          attrType |-> testCaseNode.warning[1].attrType,
          text |-> testCaseNode.warning[1].text]
    ELSE IF testCaseNode.failure # <<>>
    THEN [type |-> FAILURE,
          attrType |-> testCaseNode.failure[1].attrType,
          text |-> testCaseNode.failure[1].text]
    ELSE IF testCaseNode.skipped # <<>> \/ testCaseNode.incomplete # <<>>
    THEN [type |-> SKIPPED, attrType |-> SKIPPED, text |-> <<>>]
    ELSE NoFaultNode

crlf2lf(str) == replaceAll(str, <<"\r", "\n">>, <<"\n">>)

parseMessage(faultNode) == crlf2lf(faultNode.text)

\* Mutant of parseDetails: the line is kept one-based.
parseDetailsOneBased(message) ==
    LET lines == split(message, <<"\n">>)
        trimmed == [i \in 1..Len(lines) |-> trim(lines[i])]
        kept == SelectSeq(trimmed, EndsWithFileLine)
    IN [i \in 1..Len(kept) |->
            [file |-> matchFileLine(kept[i]).file,
             line |-> parseInt(matchFileLine(kept[i]).line)]]

parseDetails(message) ==
    LET lines == split(message, <<"\n">>)
        trimmed == [i \in 1..Len(lines) |-> trim(lines[i])]
        kept == SelectSeq(trimmed, EndsWithFileLine)
    IN [i \in 1..Len(kept) |->
            [file |-> matchFileLine(kept[i]).file,
             line |-> parseInt(matchFileLine(kept[i]).line) - 1]]

\* Mutant of currentFile: the first Detail of the own file, not the last.
currentFileFirst(details, testCase) ==
    LET own == SelectSeq(details, LAMBDA detail : testCase.file = detail.file)
    IN IF Len(own) # 0 THEN own[1]
       ELSE [file |-> testCase.file, line |-> testCase.line]

currentFile(details, testCase) ==
    LET own == SelectSeq(details, LAMBDA detail : testCase.file = detail.file)
    IN IF Len(own) # 0 THEN own[Len(own)]
       ELSE [file |-> testCase.file, line |-> testCase.line]

\* details.forEach(detail => message = message.replace(`file:line+1`, '').trim())
RECURSIVE stripDetails(_, _)
stripDetails(message, details) ==
    IF details = <<>> THEN message
    ELSE stripDetails(
            trim(replaceFirst(message,
                              Head(details).file \o <<":">>
                                  \o toDecimal(Head(details).line + 1),
                              <<>>)),
            Tail(details))

\* The TypeErrors of parseTestCase: testCaseNodeAttr.name on a testcase element
\* without attributes (line 104), errorNode.$.type.toLowerCase() on an error
\* element without attributes or without a type attribute (line 209), and
\* str.replace of undefined (line 227) on an error, warning or failure element
\* that has no text or, having no attributes, is a plain string without _.
parseTestCaseThrows(testCaseNode) ==
    \/ testCaseNode.attr = NoAttributes
    \/ /\ testCaseNode.error # <<>>
       /\ testCaseNode.error[1].attrType \in {Absent, Undefined}
    \/ /\ getFaultNode(testCaseNode) # NoFaultNode
       /\ \/ getFaultNode(testCaseNode).text = Absent
          \/ getFaultNode(testCaseNode).attrType = Absent

parseTestCase(testCaseNode) ==
    LET a == testCaseNode.attr
        testCase == [name |-> IF a.name \in {Absent, <<>>} THEN Null ELSE a.name,
                     file |-> IF a.file = Absent THEN Undefined ELSE a.file,
                     line |-> parseInt(IF a.line \in {Absent, <<>>}
                                       THEN <<"1">> ELSE a.line) - 1,
                     type |-> PASSED]
        faultNode == getFaultNode(testCaseNode)
        details == parseDetails(parseMessage(faultNode))
        message == stripDetails(parseMessage(faultNode), details)
        current == currentFile(details, testCase)
    IN IF parseTestCaseThrows(testCaseNode) THEN Thrown
       ELSE IF faultNode = NoFaultNode THEN testCase
       ELSE [name |-> testCase.name,
             file |-> current.file,
             line |-> current.line,
             type |-> faultNode.type,
             fault |-> [type |-> IF faultNode.attrType \in {Undefined, <<>>}
                                 THEN <<>> ELSE faultNode.attrType,
                        message |-> trim(message),
                        details |-> SelectSeq(details,
                                       LAMBDA detail : detail.file # testCase.file)]]

RECURSIVE parseTestSuite(_)
parseTestSuite(testSuitNode) ==
    IF testSuitNode.testsuite # <<>>
    THEN Flatten([i \in 1..Len(testSuitNode.testsuite) |->
                    parseTestSuite(testSuitNode.testsuite[i])])
    ELSE IF testSuitNode.testcase # <<>>
    THEN [i \in 1..Len(testSuitNode.testcase) |->
                    parseTestCase(testSuitNode.testcase[i])]
    ELSE <<>>

\* The promise JUnitParser.parseString returns, settled: a TypeError inside the
\* then callback rejects it.
JUnitResult(content) ==
    LET testCases == parseTestSuite(xml2json(content))
    IN IF \E i \in 1..Len(testCases) : testCases[i] = Thrown
       THEN [status |-> "rejected"]
       ELSE [status |-> "resolved", value |-> testCases]

----------------------------------------------------------------------------
(* The JUnit documents explored.                                            *)

FileF == <<"f">>
FileG == <<"g">>

Alphabet ==
    <<"a", "b", "c", "d", "e", "f", "g", "h", "i", "j", "k", "l", "m",
      "n", "o", "p", "q", "r", "s", "t", "u", "v", "w", "x", "y", "z">>

NoChildren ==
    [error |-> <<>>, warning |-> <<>>, failure |-> <<>>,
     skipped |-> <<>>, incomplete |-> <<>>]

TestCaseElement(attr, kids) ==
    [tag |-> "testcase", attr |-> attr,
     error |-> kids.error, warning |-> kids.warning, failure |-> kids.failure,
     skipped |-> kids.skipped, incomplete |-> kids.incomplete]

PlainCase ==
    TestCaseElement([name |-> <<"t">>, file |-> FileF, line |-> <<"3">>], NoChildren)

SuiteOf(children) == [tag |-> "testsuite", children |-> children]

\* A testsuite of testcases, and a testsuite of testcases and such testsuites.
InnerSuites == {SuiteOf(c) : c \in SeqUpTo({PlainCase}, MaxKids)}
OuterSuites == {SuiteOf(c) : c \in SeqUpTo({PlainCase} \cup InnerSuites, MaxKids)}

RECURSIVE SumSeq(_)
SumSeq(s) == IF s = <<>> THEN 0 ELSE Head(s) + SumSeq(Tail(s))

\* The number of testcase elements of an element.
RECURSIVE LeafCount(_)
LeafCount(el) ==
    IF el.tag = "testcase" THEN 1
    ELSE SumSeq([i \in 1..Len(el.children) |-> LeafCount(el.children[i])])

\* The element with its testcases named a, b, c, ... in document order.
RECURSIVE Relabel(_, _)
Relabel(el, before) ==
    IF el.tag = "testcase"
    THEN [el EXCEPT !.attr = [@ EXCEPT !.name = <<Alphabet[before + 1]>>]]
    ELSE LET kids == el.children
             skip(i) == SumSeq([j \in 1..(i - 1) |-> LeafCount(kids[j])])
         IN [el EXCEPT !.children =
                [i \in 1..Len(kids) |-> Relabel(kids[i], before + skip(i))]]

TreeDocs ==
    {Relabel([tag |-> "testsuites", children |-> c], 0) :
        c \in SeqUpTo(OuterSuites, MaxRoot)}

\* The names of the testcase elements of an element, in document order.
RECURSIVE LeafNames(_)
LeafNames(el) ==
    IF el.tag = "testcase" THEN <<el.attr.name>>
    ELSE Flatten([i \in 1..Len(el.children) |-> LeafNames(el.children[i])])

\* Type attributes of error elements: fragments joined.
TypeFrags ==
    {<<"S", "k", "i", "p", "p", "e", "d">>,
     <<"I", "N", "C", "O", "M", "P", "L", "E", "T", "E">>,
     <<"F", "a", "i", "l", "e", "d">>,
     <<"E", "x">>,
     <<"s", "k", "i", "p">>}

TypeAttrs ==
    {Flatten(fs) : fs \in SeqUpTo(TypeFrags, MaxTypeFrags)} \cup {Absent, Undefined}

\* Lines of fault text: plain text, file:line lines for the testcase's own
\* file and for another, with surrounding blanks and with a leading zero, and
\* a line of text that holds a file:line inside.
TextLines ==
    {<<"x">>,
     <<"f", ":", "5", "x">>,
     <<"f", ":", "5">>,
     <<"g", ":", "7">>,
     <<" ", "f", ":", "0", "1", "2", " ">>,
     <<"g", ":", "0">>}

RECURSIVE JoinLines(_, _)
JoinLines(ls, sep) ==
    IF ls = <<>> THEN <<>>
    ELSE IF Len(ls) = 1 THEN ls[1]
    ELSE ls[1] \o sep \o JoinLines(Tail(ls), sep)

Texts ==
    {JoinLines(ls, <<"\n">>) : ls \in SeqUpTo(TextLines, MaxLines)}
        \cup {JoinLines(ls, <<"\r", "\n">>) : ls \in [1..2 -> TextLines \ {<<"x">>}]}
        \cup {Absent}

PlainText == <<"x">>
PlainType == <<"E", "x">>

\* error elements vary the type attribute and the text; warning and failure
\* elements are one with text and a type and one with text and attributes
\* but no type.
ErrorNodes ==
    {[attrType |-> t, text |-> PlainText] : t \in TypeAttrs}
        \cup {[attrType |-> PlainType, text |-> x] : x \in Texts}

OtherNodes ==
    {[attrType |-> Undefined, text |-> <<"g", ":", "7", "\n", "f", ":", "5">>],
     [attrType |-> PlainType, text |-> PlainText]}

\* An element with text and no attribute: xml2js delivers the plain string.
StringNode ==
    [attrType |-> Absent, text |-> <<"g", ":", "7", "\n", "f", ":", "5">>]

EmptyNode == [attrType |-> Absent, text |-> Absent]

Optional(S) == {<<>>} \cup {<<x>> : x \in S}

RichCases ==
    {TestCaseElement([name |-> <<"t">>, file |-> f, line |-> l],
                     [error |-> e, warning |-> w, failure |-> fl,
                      skipped |-> sk, incomplete |-> inc]) :
        f \in {FileF, Absent},
        l \in {Absent, <<"1">>, <<"1", "3">>},
        e \in Optional(ErrorNodes),
        w \in Optional(OtherNodes),
        fl \in Optional(OtherNodes),
        sk \in Optional({EmptyNode}),
        inc \in Optional({EmptyNode})}

\* Testcases whose error, warning or failure element may be a plain string.
StringCases ==
    {TestCaseElement([name |-> <<"t">>, file |-> FileF, line |-> l],
                     [error |-> e, warning |-> w, failure |-> fl,
                      skipped |-> <<>>, incomplete |-> <<>>]) :
        l \in {Absent, <<"1">>},
        e \in Optional({[attrType |-> PlainType, text |-> PlainText], StringNode}),
        w \in Optional(OtherNodes \cup {StringNode}),
        fl \in Optional(OtherNodes \cup {StringNode})}

\* A testcase element without attributes and children.
BareCase == TestCaseElement(NoAttributes, NoChildren)

CaseDocs ==
    {[tag |-> "testsuites", children |-> <<SuiteOf(<<c>>)>>] :
        c \in RichCases \cup StringCases \cup {BareCase}}

Pending == [status |-> "pending"]

----------------------------------------------------------------------------
(* JUnitParser.parseString as a step.  Off marks the parser a behaviour    *)
(* does not exercise.                                                       *)

Off == [status |-> "off"]
Idle == [status |-> "idle"]

TOff ==
    /\ os = "unix"
    /\ tStream = <<>>
    /\ tGroups = <<>>
    /\ tAll = Off
    /\ tLookup = <<>>
    /\ tElem = <<>>
    /\ tValues = <<>>
    /\ tSeen = {}
    /\ tCalls = <<>>
    /\ tDone = <<>>

InitJUnit ==
    /\ jDoc \in TreeDocs \cup CaseDocs
    /\ jOut = Pending
    /\ TOff

JUnitParseString ==
    /\ jOut = Pending
    /\ jOut' = JUnitResult(jDoc)
    /\ UNCHANGED <<jDoc, tvars, fvars, lvars>>

----------------------------------------------------------------------------
(* TeamCityParser.                                                          *)
(* The content is given as the argument records of its ##teamcity lines, as *)
(* minimist-string tokenizes them: [type, key |-> value, ...].  The time    *)
(* field of the records (parseFloat of the duration) is left out.           *)

\* opts[key]: undefined when the message carries no such argument.
Field(item, key) == IF key \in DOMAIN item THEN item[key] ELSE Absent

\* array[i] of a destructuring: undefined past the end.
At(array, i) == IF i <= Len(array) THEN array[i] ELSE Undefined

DroppedTypes == {"testCount", "testSuiteStarted", "testSuiteFinished"}

\* The final filter of convertToArguments (line 370).
convertToArguments(content) ==
    SelectSeq(content, LAMBDA item : item.type \notin DroppedTypes)

\* Mutant of groupStep: the counter is never advanced.
groupStepNoClose(acc, item) ==
    LET opened == IF Len(acc.results) <= acc.counter
                  THEN Append(acc.results, <<>>) ELSE acc.results
    IN [results |-> [opened EXCEPT ![acc.counter + 1] = Append(@, item)],
        counter |-> acc.counter]

\* One step of the reduce of groupByType: acc is [results, counter].
groupStep(acc, item) ==
    LET opened == IF Len(acc.results) <= acc.counter
                  THEN Append(acc.results, <<>>) ELSE acc.results
        pushed == [opened EXCEPT ![acc.counter + 1] = Append(@, item)]
    IN [results |-> pushed,
        counter |-> IF item.type = "testFinished"
                    THEN acc.counter + 1 ELSE acc.counter]

RECURSIVE groupReduce(_, _)
groupReduce(acc, items) ==
    IF items = <<>> THEN acc
    ELSE groupReduce(groupStep(acc, Head(items)), Tail(items))

groupByType(items) == groupReduce([results |-> <<>>, counter |-> 0], items).results

typeMap(type) ==
    CASE type = "testPassed" -> PASSED
      [] type = "testFailed" -> FAILURE
      [] type = "testIgnored" -> SKIPPED
      [] OTHER -> Undefined

renamePath(path) ==
    IF os = "windows" THEN replaceAll(path, <<"/">>, <<"\\">>) ELSE path

\* content.split('|n').map(trim).filter(nonempty)
detailSegments(content) ==
    LET parts == split(content, <<"|", "n">>)
    IN SelectSeq([i \in 1..Len(parts) |-> trim(parts[i])], LAMBDA line : line # <<>>)

\* The TypeErrors of convertToDetail: split of undefined, destructuring of a
\* null match.
convertToDetailThrows(content) ==
    \/ content = Absent
    \/ \E i \in 1..Len(detailSegments(content)) :
            FileLineColon(detailSegments(content)[i]) = 0

convertToDetail(content) ==
    LET paths == detailSegments(content)
    IN [i \in 1..Len(paths) |->
            [file |-> renamePath(matchFileLine(paths[i]).file),
             line |-> parseInt(matchFileLine(paths[i]).line)]]

SchemePrefix == <<"p", "h", "p", "_", "q", "n", ":", "/", "/">>

\* group.splice(1, 0, {type: 'testPassed'}) for a group of two.
spliced(group) ==
    IF Len(group) = 2 THEN <<group[1], [type |-> "testPassed"], group[2]>> ELSE group

\* locationHint.trim().replace(/^php_qn:\/\//, '').replace('::/', '::').split('::'),
\* then data[0] = renamePath(data[0]).
hintParts(start) ==
    LET trimmed == trim(start.locationHint)
        bare == IF OccursAt(trimmed, SchemePrefix, 1)
                THEN SubSeq(trimmed, Len(SchemePrefix) + 1, Len(trimmed))
                ELSE trimmed
        data == split(replaceFirst(bare, <<":", ":", "/">>, <<":", ":">>), <<":", ":">>)
    IN [data EXCEPT ![1] = renamePath(@)]

\* The TypeErrors of the map callback of convertToTestCase.
groupThrows(group) ==
    LET g == spliced(group)
    IN \/ Field(g[1], "locationHint") = Absent
       \/ Len(g) < 2
       \/ /\ typeMap(g[2].type) # PASSED
          /\ convertToDetailThrows(Field(g[2], "details"))

\* The testCase object the map callback builds (lines 281-289).
baseTestCase(group) ==
    LET g == spliced(group)
        data == hintParts(g[1])
    IN [name |-> At(data, 3),
        class |-> At(data, 2),
        file |-> data[1],
        line |-> 0,
        type |-> typeMap(g[2].type)]

\* Mutant of faultedTestCase: the JUnit rule, the last Detail of the hint's own
\* file overrides and no other.
faultedTestCaseOwnFile(group) ==
    LET error == spliced(group)[2]
        testCase == baseTestCase(group)
        details == convertToDetail(error.details)
        own == SelectSeq(details, LAMBDA detail : detail.file = testCase.file)
        message == IF Field(error, "message") = Absent
                   THEN Undefined ELSE error.message
    IN [name |-> testCase.name, class |-> testCase.class,
        file |-> testCase.file,
        line |-> IF Len(own) > 0 THEN own[Len(own)].line ELSE testCase.line,
        type |-> testCase.type,
        fault |-> [message |-> message,
                   details |-> SelectSeq(details,
                                  LAMBDA detail : detail.file # testCase.file)]]

\* Lines 299-309: the record of a group whose type is not passed.
faultedTestCase(group) ==
    LET error == spliced(group)[2]
        testCase == baseTestCase(group)
        details == convertToDetail(error.details)
        message == IF Field(error, "message") = Absent
                   THEN Undefined ELSE error.message
        fault == [message |-> message,
                  details |-> SelectSeq(details,
                                 LAMBDA detail : detail.file # testCase.file)]
    IN IF Len(details) > 0
       THEN [name |-> testCase.name, class |-> testCase.class,
             file |-> details[1].file, line |-> details[1].line,
             type |-> testCase.type, fault |-> fault]
       ELSE [name |-> testCase.name, class |-> testCase.class,
             file |-> testCase.file, line |-> testCase.line,
             type |-> testCase.type, fault |-> fault]

needsLookup(group) == baseTestCase(group).type = PASSED

\* Lines 292-296: the then callback of a lookup, tap(testCase, line).
withLine(group, line) == [baseTestCase(group) EXCEPT !.line = line]

----------------------------------------------------------------------------
(* Promise.all over the promises of the groups (line 261).                  *)

Unset == [state |-> "unset"]
Fulfilled(v) == [status |-> "fulfilled", value |-> v]
Rejected(r) == [status |-> "rejected", reason |-> r]

\* Mutant of placeValue: the value goes to the first free slot, as results
\* pushed in completion order would.
placeValueByArrival(values, i, v) ==
    LET free == {k \in 1..Len(values) : values[k].state = "unset"}
        k == CHOOSE k \in free : \A j \in free : k <= j
    IN [values EXCEPT ![k] = [state |-> "set", value |-> v]]

\* Promise.all stores the value of element i at index i.
placeValue(values, i, v) == [values EXCEPT ![i] = [state |-> "set", value |-> v]]

\* Promise.all fulfils when no element is outstanding.
allFulfilled(values) == \A i \in 1..Len(values) : values[i].state = "set"

\* Mutant of rejectAll: a rejected element is passed over, as
\* Promise.allSettled or a catch in the callback would.
rejectAllSwallowed(all, reason) == all

\* Promise.all rejects with the first rejection it sees; a settled promise
\* stays as it is.
rejectAll(all, reason) == IF all = Pending THEN Rejected(reason) ELSE all

\* How often the map callback calls lineData.lineNumber for a group.
lookupCalls(group) == IF needsLookup(group) THEN 1 ELSE 0

----------------------------------------------------------------------------
(* The TeamCity streams explored: blocks of service messages, joined.       *)

FileA == <<"a", ".", "p", "h", "p">>
FileB == <<"b", ".", "p", "h", "p">>

NameA == <<"t", "A">>
NameB == <<"t", "B">>

HintOf(file, name) ==
    SchemePrefix \o file \o <<":", ":", "/", "C", ":", ":">> \o name

\* A hint of two parts only: file and class.
ShortHint == SchemePrefix \o FileA \o <<":", ":", "/", "C">>

\* A hint of four parts: file, class, name and one more.
LongHint == HintOf(FileA, NameA) \o <<":", ":", "x">>

Started(hint) == [type |-> "testStarted", locationHint |-> hint]
Finished == [type |-> "testFinished", duration |-> <<"0">>]
Middle(type, message, details) ==
    [type |-> type, message |-> message, details |-> details]

\* a.php:5|nb.php:9
DetailsAB == FileA \o <<":", "5", "|", "n">> \o FileB \o <<":", "9">>
\* b.php:9|na.php:5|n
DetailsBA == FileB \o <<":", "9", "|", "n">> \o FileA \o <<":", "5", "|", "n">>
\* t/b.php:3
DetailsT == <<" ", "t", "/">> \o FileB \o <<":", "3">>

MessageM == <<"m">>

Blocks ==
    {<<[type |-> "testCount"], [type |-> "testSuiteStarted"]>>,
     <<Started(HintOf(FileA, NameA)), Finished>>,
     <<[type |-> "testSuiteStarted"], Started(HintOf(FileB, NameB)), Finished,
       [type |-> "testSuiteFinished"]>>,
     <<Started(ShortHint), Finished>>,
     <<Started(HintOf(FileA, NameA)),
       Middle("testFailed", MessageM, DetailsAB), Finished>>,
     <<Started(HintOf(FileA, NameA)),
       Middle("testFailed", MessageM, DetailsBA), Finished>>,
     <<Started(HintOf(FileA, NameB)),
       Middle("testFailed", MessageM, <<>>), Finished>>,
     <<Started(HintOf(FileA, NameA)),
       Middle("testFailed", MessageM, <<"x">>), Finished>>,
     <<Started(HintOf(FileA, NameA)),
       [type |-> "testFailed", message |-> DetailsAB], Finished>>,
     <<Started(HintOf(FileA, NameB)),
       Middle("testIgnored", MessageM, DetailsT), Finished>>,
     <<Started(HintOf(FileA, NameA)),
       Middle("testStdOut", MessageM, DetailsAB), Finished>>,
     <<Started(HintOf(FileB, NameB))>>,
     <<Started(ShortHint),
       Middle("testFailed", MessageM, DetailsAB), Finished>>,
     <<Started(LongHint),
       Middle("testIgnored", MessageM, <<>>), Finished>>}

Streams == {Flatten(bs) : bs \in SeqUpTo(Blocks, MaxBlocks)}

\* The line indexes the line locator answers with.
LocatorLines == {3, 7}

EmptyDoc == [tag |-> "testsuites", children |-> <<>>]

JOff ==
    /\ jDoc = EmptyDoc
    /\ jOut = Off

InitTeamCity ==
    /\ os \in {"unix", "windows"}
    /\ tStream \in Streams
    /\ tGroups = <<>>
    /\ tAll = Idle
    /\ tLookup = <<>>
    /\ tElem = <<>>
    /\ tValues = <<>>
    /\ tSeen = {}
    /\ tCalls = <<>>
    /\ tDone = <<>>
    /\ JOff

----------------------------------------------------------------------------
(* TeamCityParser.parseString and the completion of its promises.           *)

\* Lines 254-312, up to the return of Promise.all: the synchronous part.  A
\* TypeError in the map callback leaves parseString by an exception; the
\* groups before it have had their lookups issued.
TCParseString ==
    /\ tAll = Idle
    /\ LET groups == groupByType(convertToArguments(tStream))
           n == Len(groups)
           throwers == {i \in 1..n : groupThrows(groups[i])}
           first == CHOOSE i \in throwers : \A j \in throwers : i <= j
       IN /\ tGroups' = groups
          /\ IF throwers # {}
             THEN /\ tAll' = [status |-> "threw"]
                  /\ tCalls' = [i \in 1..n |->
                                   IF i < first THEN lookupCalls(groups[i]) ELSE 0]
                  /\ tLookup' = <<>>
                  /\ tElem' = <<>>
                  /\ tValues' = <<>>
                  /\ tSeen' = {}
             ELSE /\ tAll' = IF n = 0 THEN Fulfilled(<<>>) ELSE Pending
                  /\ tCalls' = [i \in 1..n |-> lookupCalls(groups[i])]
                  /\ tLookup' = [i \in 1..n |->
                                    IF needsLookup(groups[i])
                                    THEN Pending ELSE [status |-> "none"]]
                  /\ tElem' = [i \in 1..n |->
                                  IF needsLookup(groups[i])
                                  THEN Pending
                                  ELSE Fulfilled(faultedTestCase(groups[i]))]
                  /\ tValues' = [i \in 1..n |-> Unset]
                  /\ tSeen' = {}
    /\ UNCHANGED <<os, tStream, tDone, jvars, fvars, lvars>>

\* The line locator answers a lookup with a line index.
LookupResolve(i, line) ==
    /\ i \in 1..Len(tLookup)
    /\ tLookup[i] = Pending
    /\ tLookup' = [tLookup EXCEPT ![i] = [status |-> "resolved", value |-> line]]
    /\ tDone' = Append(tDone, i)
    /\ UNCHANGED <<os, tStream, tGroups, tAll, tElem, tValues, tSeen, tCalls, jvars, fvars, lvars>>

\* The line locator fails a lookup; the reason names the lookup.
LookupReject(i) ==
    /\ i \in 1..Len(tLookup)
    /\ tLookup[i] = Pending
    /\ tLookup' = [tLookup EXCEPT ![i] = Rejected(i)]
    /\ tDone' = Append(tDone, i)
    /\ UNCHANGED <<os, tStream, tGroups, tAll, tElem, tValues, tSeen, tCalls, jvars, fvars, lvars>>

\* The then of line 292 runs for a settled lookup: the record gets its line,
\* or the rejection passes through.
ThenCallback(i) ==
    /\ i \in 1..Len(tElem)
    /\ tElem[i] = Pending
    /\ tLookup[i].status \in {"resolved", "rejected"}
    /\ tElem' = [tElem EXCEPT ![i] =
                    IF tLookup[i].status = "resolved"
                    THEN Fulfilled(withLine(tGroups[i], tLookup[i].value))
                    ELSE Rejected(tLookup[i].reason)]
    /\ UNCHANGED <<os, tStream, tGroups, tAll, tLookup, tValues, tSeen, tCalls, tDone, jvars, fvars, lvars>>

\* Promise.all reacts to a settled element.
AllReact(i) ==
    /\ i \in 1..Len(tElem)
    /\ i \notin tSeen
    /\ tElem[i].status \in {"fulfilled", "rejected"}
    /\ tSeen' = tSeen \cup {i}
    /\ IF tElem[i].status = "fulfilled"
       THEN LET values == placeValue(tValues, i, tElem[i].value)
            IN /\ tValues' = values
               /\ tAll' = IF tAll = Pending /\ allFulfilled(values)
                          THEN Fulfilled([k \in 1..Len(values) |-> values[k].value])
                          ELSE tAll
       ELSE /\ tValues' = tValues
            /\ tAll' = rejectAll(tAll, tElem[i].reason)
    /\ UNCHANGED <<os, tStream, tGroups, tLookup, tElem, tCalls, tDone, jvars, fvars, lvars>>

----------------------------------------------------------------------------
(* ParserFactory (parser.ts lines 64-78).                                   *)

JUNIT == <<"j", "u", "n", "i", "t">>
TEAMCITY == <<"t", "e", "a", "m", "c", "i", "t", "y">>
CONSTRUCTOR == <<"c", "o", "n", "s", "t", "r", "u", "c", "t", "o", "r">>
PROTO == <<"_", "_", "p", "r", "o", "t", "o", "_", "_">>
TOSTRING == <<"t", "o", "S", "t", "r", "i", "n", "g">>
VALUEOF == <<"v", "a", "l", "u", "e", "O", "f">>

\* this.map[name], by the name of the value found: the own properties
\* teamcity and junit of the object literal, and the properties it inherits
\* from Object.prototype: constructor is the function Object, __proto__ is
\* Object.prototype itself, toString and valueOf are built-in methods.  Every
\* other name gives undefined.
mapLookup(name) ==
    IF name = TEAMCITY THEN "TeamCityParser"
    ELSE IF name = JUNIT THEN "JUnitParser"
    ELSE IF name = CONSTRUCTOR THEN "Object"
    ELSE IF name = PROTO THEN "Object.prototype"
    ELSE IF name \in {TOSTRING, VALUEOF} THEN "method"
    ELSE "undefined"

\* The values new accepts: classes and the function Object.
Constructors == {"TeamCityParser", "JUnitParser", "Object"}

Returned(class) == [status |-> "returned", class |-> class]
Threw(error) == [status |-> "threw", error |-> error]

\* create(name): name.toLowerCase() of undefined and new of a value that is
\* no constructor are TypeErrors.
create(name) ==
    IF name = Absent THEN Threw("TypeError")
    ELSE IF mapLookup(toLowerCase(name)) = "undefined" THEN Threw("wrong parser")
    ELSE IF mapLookup(toLowerCase(name)) \notin Constructors
    THEN Threw("TypeError")
    ELSE Returned(mapLookup(toLowerCase(name)))

\* The names explored: the two formats in several letter cases, unknown
\* formats, near misses, no name, and names of inherited properties.
FactoryNames ==
    {JUNIT,
     <<"J", "U", "n", "i", "t">>,
     <<"J", "U", "N", "I", "T">>,
     TEAMCITY,
     <<"T", "e", "a", "m", "C", "i", "t", "y">>,
     <<"T", "E", "A", "M", "C", "I", "T", "Y">>,
     <<"n", "u", "n", "i", "t">>,
     <<"j", "u", "n", "i", "t", " ">>,
     <<"j", "u", "n", "i", "t", "s">>,
     <<"t", "e", "a", "m">>,
     <<>>,
     Absent,
     CONSTRUCTOR,
     <<"C", "o", "n", "s", "t", "r", "u", "c", "t", "o", "r">>,
     PROTO,
     TOSTRING,
     VALUEOF}

FOff ==
    /\ fName = Absent
    /\ fOut = Off

InitFactory ==
    /\ fName \in FactoryNames
    /\ fOut = Idle

FactoryCreate ==
    /\ fOut = Idle
    /\ fOut' = create(fName)
    /\ UNCHANGED <<fName, jvars, tvars, lvars>>

----------------------------------------------------------------------------
(* Filesystem.lineAt (Filesystem.ts lines 145-170).                         *)
(* The closure of one call is [number, current, found, closed, promise,     *)
(* settles]; the lines of the file are opaque values.                       *)

\* resolve(v) and reject(r) of the promise executor: the call is recorded, and
\* only the first call settles the promise.
resolve(st, v) ==
    [st EXCEPT !.settles = Append(@, Fulfilled(v)),
               !.promise = IF @ = Pending THEN Fulfilled(v) ELSE @]

reject(st, r) ==
    [st EXCEPT !.settles = Append(@, Rejected(r)),
               !.promise = IF @ = Pending THEN Rejected(r) ELSE @]

\* rl.on('close', ...), lines 164-168.
onClose(st) == IF st.found = FALSE THEN reject(st, "") ELSE st

\* rl.close(): readline emits 'close' synchronously, once per interface.
rlClose(st) == IF st.closed THEN st ELSE onClose([st EXCEPT !.closed = TRUE])

\* Mutant of onLine: the reader is closed before found is set.
onLineCloseFirst(st, line) ==
    LET closed == rlClose(st)
        hit == [closed EXCEPT !.found = TRUE]
        after == IF st.number = st.current THEN resolve(hit, line) ELSE st
    IN [after EXCEPT !.current = @ + 1]

\* rl.on('line', ...), lines 154-162.
onLine(st, line) ==
    LET hit == [st EXCEPT !.found = TRUE]
        closed == rlClose(hit)
        after == IF st.number = st.current THEN resolve(closed, line) ELSE st
    IN [after EXCEPT !.current = @ + 1]

\* The closure as the variables hold it.
closure ==
    [number |-> lNumber, current |-> lCurrent, found |-> lFound,
     closed |-> lClosed, promise |-> lPromise, settles |-> lSettles]

\* The variables take the closure st.
closureBecomes(st) ==
    /\ lCurrent' = st.current
    /\ lFound' = st.found
    /\ lClosed' = st.closed
    /\ lPromise' = st.promise
    /\ lSettles' = st.settles

\* The files explored, as the lines readline cuts them into, and the
\* lineNumber arguments.
FileLines ==
    {<<>>,
     <<"zero">>,
     <<"zero", "one">>,
     <<"zero", "one", "two">>,
     <<"same", "same", "same">>,
     <<"zero", "one", "two", "three">>}

LineNumbers == {0, 1, 2, 3, 4, 6}

LOff ==
    /\ lLines = <<>>
    /\ lNumber = 0
    /\ lCurrent = 0
    /\ lFound = FALSE
    /\ lClosed = FALSE
    /\ lNext = 0
    /\ lPromise = Off
    /\ lSettles = <<>>

InitLineAt ==
    /\ lLines \in FileLines
    /\ lNumber \in LineNumbers
    /\ lCurrent = 0
    /\ lFound = FALSE
    /\ lClosed = FALSE
    /\ lNext = 0
    /\ lPromise = Idle
    /\ lSettles = <<>>

\* lineAt is called: the interface and the closure are set up and the
\* promise is returned, lines 146-153.
LineAtCall ==
    /\ lPromise = Idle
    /\ lPromise' = Pending
    /\ lCurrent' = 0
    /\ lFound' = FALSE
    /\ UNCHANGED <<lLines, lNumber, lClosed, lNext, lSettles, jvars, tvars, fvars>>

\* readline delivers the next line of the file.  Lines of a chunk already
\* read may still be delivered after the reader was closed.
LineEvent ==
    /\ lPromise \notin {Off, Idle}
    /\ lNext < Len(lLines)
    /\ lNext' = lNext + 1
    /\ closureBecomes(onLine(closure, lLines[lNext + 1]))
    /\ UNCHANGED <<lLines, lNumber, jvars, tvars, fvars>>

\* The input ends after its last line: readline closes the interface, which
\* emits 'close' unless it was closed before.
EndOfInput ==
    /\ lPromise \notin {Off, Idle}
    /\ lNext = Len(lLines)
    /\ ~lClosed
    /\ closureBecomes(rlClose(closure))
    /\ UNCHANGED <<lLines, lNumber, lNext, jvars, tvars, fvars>>

----------------------------------------------------------------------------

Init ==
    \/ InitJUnit /\ FOff /\ LOff
    \/ InitTeamCity /\ FOff /\ LOff
    \/ InitFactory /\ JOff /\ TOff /\ LOff
    \/ InitLineAt /\ JOff /\ TOff /\ FOff

Next ==
    \/ JUnitParseString
    \/ TCParseString
    \/ \E i \in DOMAIN tLookup, line \in LocatorLines : LookupResolve(i, line)
    \/ \E i \in DOMAIN tLookup : LookupReject(i)
    \/ \E i \in DOMAIN tElem : ThenCallback(i)
    \/ \E i \in DOMAIN tElem : AllReact(i)
    \/ FactoryCreate
    \/ LineAtCall
    \/ LineEvent
    \/ EndOfInput

Spec == Init /\ [][Next]_vars

----------------------------------------------------------------------------
(* Properties.                                                              *)

RecordNames(records) == [i \in 1..Len(records) |-> records[i].name]

\* C1: JUnitParser.parseString returns exactly one record per testcase element
\* of the document, whatever the nesting of the testsuite elements, and the
\* records are in document order.
C1_OneRecordPerTestcaseInOrder ==
    jOut.status = "resolved" => RecordNames(jOut.value) = LeafNames(jDoc)

\* C2: the sequence TeamCityParser.parseString delivers holds the test cases in
\* the order of their groups, each passed one with the line of its own lookup,
\* whatever order the lookups completed in, and it is delivered only when every
\* lookup has completed.
C2_OrderedAfterAllLookups ==
    tAll.status = "fulfilled" =>
        /\ Len(tAll.value) = Len(tGroups)
        /\ \A i \in 1..Len(tGroups) :
            /\ tLookup[i].status \in {"none", "resolved"}
            /\ tAll.value[i].name = baseTestCase(tGroups[i]).name
            /\ tAll.value[i].file = IF tLookup[i].status = "resolved"
                                    THEN baseTestCase(tGroups[i]).file
                                    ELSE tElem[i].value.file
            /\ tLookup[i].status = "resolved" =>
                    tAll.value[i].line = tLookup[i].value

\* Two passed tests of different names and files, the lookup of the second
\* completed first and with another line, and the result delivered.
C2_Witness ==
    /\ tAll.status = "fulfilled"
    /\ tDone = <<2, 1>>
    /\ tAll.value[1].name # tAll.value[2].name
    /\ tAll.value[1].line # tAll.value[2].line

ExactlyOneOfPassedOrFault(testCase) ==
    \/ testCase.type = PASSED /\ "fault" \notin DOMAIN testCase
    \/ testCase.type # PASSED /\ "fault" \in DOMAIN testCase

\* C3: every TestCase JUnitParser or TeamCityParser returns either has type
\* passed and no fault, or has another type and a fault.
C3_PassedXorFault ==
    /\ jOut.status = "resolved" =>
            \A i \in 1..Len(jOut.value) : ExactlyOneOfPassedOrFault(jOut.value[i])
    /\ tAll.status = "fulfilled" =>
            \A i \in 1..Len(tAll.value) : ExactlyOneOfPassedOrFault(tAll.value[i])

\* A delivered TeamCity result holding a passed record and a faulted one.
C3_Witness ==
    /\ tAll.status = "fulfilled"
    /\ \E i, j \in 1..Len(tAll.value) :
            /\ tAll.value[i].type = PASSED
            /\ "fault" \notin DOMAIN tAll.value[i]
            /\ tAll.value[j].type = FAILURE
            /\ "fault" \in DOMAIN tAll.value[j]

\* The events of a stream that are not dropped.
KeptItems == SelectSeq(tStream, LAMBDA item : item.type \notin DroppedTypes)

FinishedCount == Len(SelectSeq(tStream, LAMBDA item : item.type = "testFinished"))

\* A sequence of tests, each testStarted, at most one testFailed or
\* testIgnored, testFinished.
RECURSIVE WellFormedTests(_)
WellFormedTests(items) ==
    \/ items = <<>>
    \/ /\ Len(items) >= 2
       /\ items[1].type = "testStarted"
       /\ items[2].type = "testFinished"
       /\ WellFormedTests(SubSeq(items, 3, Len(items)))
    \/ /\ Len(items) >= 3
       /\ items[1].type = "testStarted"
       /\ items[2].type \in {"testFailed", "testIgnored"}
       /\ items[3].type = "testFinished"
       /\ WellFormedTests(SubSeq(items, 4, Len(items)))

\* C4: the groups are the kept events cut immediately after each testFinished;
\* a stream of well-formed tests gives one group, and when the parse delivers,
\* one record, per testFinished; a group of exactly testStarted, testFinished
\* gives a record of type passed without fault.
C4_GroupClosedAtTestFinished ==
    tAll.status \notin {"off", "idle"} =>
        /\ Flatten(tGroups) = KeptItems
        /\ \A g \in 1..Len(tGroups) :
            /\ tGroups[g] # <<>>
            /\ \A k \in 1..(Len(tGroups[g]) - 1) : tGroups[g][k].type # "testFinished"
            /\ g < Len(tGroups) => tGroups[g][Len(tGroups[g])].type = "testFinished"
        /\ WellFormedTests(KeptItems) =>
            /\ Len(tGroups) = FinishedCount
            /\ tAll.status = "fulfilled" => Len(tAll.value) = FinishedCount
        /\ \A g \in 1..Len(tElem) :
            (/\ Len(tGroups[g]) = 2
             /\ tGroups[g][1].type = "testStarted"
             /\ tGroups[g][2].type = "testFinished"
             /\ tElem[g].status = "fulfilled") =>
                /\ tElem[g].value.type = PASSED
                /\ "fault" \notin DOMAIN tElem[g].value

\* A stream with suite events dropped, a passed and a failed well-formed test,
\* delivered as two records.
C4_Witness ==
    /\ tAll.status = "fulfilled"
    /\ Len(tStream) > Len(KeptItems)
    /\ WellFormedTests(KeptItems)
    /\ Len(tAll.value) = 2
    /\ \E g, h \in 1..2 : Len(tGroups[g]) = 2 /\ Len(tGroups[h]) = 3

\* The middle event of a group of three whose type is not mapped to passed.
IsFaultGroup(group) ==
    /\ Len(group) = 3
    /\ group[1].type = "testStarted"
    /\ group[2].type \in {"testFailed", "testIgnored"}
    /\ group[3].type = "testFinished"

\* The Details the claim reads off a text: the segments between |n, trimmed,
\* the empty ones dropped, each <file>:<line> with the line zero-based.
SegmentsMatch(text) ==
    \A i \in 1..Len(detailSegments(text)) : FileLineColon(detailSegments(text)[i]) # 0

ZeroBasedDetails(text) ==
    [i \in 1..Len(detailSegments(text)) |->
        [file |-> renamePath(matchFileLine(detailSegments(text)[i]).file),
         line |-> parseInt(matchFileLine(detailSegments(text)[i]).line) - 1]]

\* C5 as stated: the Details of a non-passed group come from the message field
\* of its middle event, and the first of them is the record's file and line
\* (zero-based); fault.details keeps the Details of the other files.  So a sole
\* group [testStarted, testFailed{message="a.php:5|nb.php:9"}, testFinished] is
\* parsed, to file a.php, line 4 and details holding only the b.php entry.
C5_MessageFieldFirstDetailWins ==
    tAll.status \notin {"off", "idle"} =>
        \A g \in 1..Len(tGroups) :
            (/\ IsFaultGroup(tGroups[g])
             /\ "message" \in DOMAIN tGroups[g][2]
             /\ SegmentsMatch(tGroups[g][2].message)
             /\ Len(detailSegments(tGroups[g][2].message)) > 0) =>
                LET details == ZeroBasedDetails(tGroups[g][2].message)
                IN /\ Len(tGroups) = 1 => tAll.status # "threw"
                   /\ (g \in DOMAIN tElem /\ tElem[g].status = "fulfilled") =>
                        /\ tElem[g].value.file = details[1].file
                        /\ tElem[g].value.line = details[1].line
                        /\ tElem[g].value.fault.details =
                              SelectSeq(details,
                                  LAMBDA d : d.file # details[1].file)

\* C5 as amended: the Details of a non-passed group come from the details field
\* of its middle event (without that field the parse throws), and the first
\* of them, if any, is the record's file and line whatever file it names;
\* with none the hint's file and line 0 stay.  The group [testStarted{a.php},
\* testFailed{details="a.php:5|nb.php:9"}, testFinished] gives file a.php, the
\* line of the a.php Detail, and details holding only the b.php entry.
C5_DetailsFieldFirstDetailWins ==
    tAll.status \notin {"off", "idle"} =>
        \A g \in 1..Len(tGroups) :
            IsFaultGroup(tGroups[g]) =>
                /\ "details" \notin DOMAIN tGroups[g][2] => tAll.status = "threw"
                /\ (g \in DOMAIN tElem /\ tElem[g].status = "fulfilled") =>
                    LET segments == detailSegments(tGroups[g][2].details)
                        record == tElem[g].value
                    IN /\ segments = <<>> =>
                            /\ record.file = hintParts(tGroups[g][1])[1]
                            /\ record.line = 0
                       /\ segments # <<>> =>
                            /\ record.file = renamePath(matchFileLine(segments[1]).file)
                            /\ record.line = convertToDetail(segments[1])[1].line
                       /\ (/\ tGroups[g][2].details = DetailsAB
                           /\ tGroups[g][1].locationHint = HintOf(FileA, NameA)) =>
                            /\ record.file = FileA
                            /\ Len(record.fault.details) = 1
                            /\ record.fault.details[1].file = FileB

\* A non-passed record that took the file of its first Detail although the
\* location hint names another file.
C5_Witness ==
    \E g \in DOMAIN tElem :
        /\ IsFaultGroup(tGroups[g])
        /\ tGroups[g][2].details = DetailsBA
        /\ tElem[g].status = "fulfilled"
        /\ tElem[g].value.file = FileB
        /\ hintParts(tGroups[g][1])[1] = FileA
        /\ tAll.status = "fulfilled"

----------------------------------------------------------------------------
(* Properties of one testcase element: the documents of one testsuite of    *)
(* one testcase.                                                            *)

IsCaseDoc ==
    /\ Len(jDoc.children) = 1
    /\ Len(jDoc.children[1].children) = 1
    /\ jDoc.children[1].children[1].tag = "testcase"

CaseNode == jDoc.children[1].children[1]

\* The record of the testcase element, once parseString has resolved.
CaseParsed == IsCaseDoc /\ jOut.status = "resolved"

CaseRecord == jOut.value[1]

NominalFile == IF CaseNode.attr.file = Absent THEN Undefined ELSE CaseNode.attr.file

NominalLine ==
    IF CaseNode.attr.line = Absent THEN 0 ELSE parseInt(CaseNode.attr.line) - 1

\* The element the fault is to be taken from: the first present of error,
\* warning, failure.
FirstFaultChild ==
    IF CaseNode.error # <<>> THEN CaseNode.error[1]
    ELSE IF CaseNode.warning # <<>> THEN CaseNode.warning[1]
    ELSE CaseNode.failure[1]

HasTextFault ==
    CaseNode.error # <<>> \/ CaseNode.warning # <<>> \/ CaseNode.failure # <<>>

\* The lines of the fault's text, trimmed, that end in <file>:<digits>, as
\* [file, number]: the text before the last colon and the number after it.
FileLineLines ==
    LET lines == split(replaceAll(FirstFaultChild.text, <<"\r", "\n">>, <<"\n">>),
                       <<"\n">>)
        trimmed == [i \in 1..Len(lines) |-> trim(lines[i])]
        ending == SelectSeq(trimmed, EndsWithFileLine)
        colon(l) == CHOOSE k \in 1..Len(l) :
                        /\ l[k] = ":"
                        /\ \A j \in (k + 1)..Len(l) : IsDigit(l[j])
    IN [i \in 1..Len(ending) |->
            [file |-> SubSeq(ending[i], 1, colon(ending[i]) - 1),
             number |-> parseInt(SubSeq(ending[i], colon(ending[i]) + 1,
                                        Len(ending[i])))]]

OwnFileLines == SelectSeq(FileLineLines, LAMBDA l : l.file = NominalFile)
OtherFileLines == SelectSeq(FileLineLines, LAMBDA l : l.file # NominalFile)

\* C6: a faulted testcase is returned with the file and line of the last Detail
\* of its message that names the testcase's nominal file, or with the nominal
\* file and line when none does; fault.details is the Details in order, those
\* of the returned file removed and every other retained.
C6_LastOwnFileDetailOverrides ==
    (CaseParsed /\ HasTextFault) =>
        /\ OwnFileLines = <<>> =>
            /\ CaseRecord.file = NominalFile
            /\ CaseRecord.line = NominalLine
        /\ OwnFileLines # <<>> =>
            /\ CaseRecord.file = OwnFileLines[Len(OwnFileLines)].file
            /\ CaseRecord.line = OwnFileLines[Len(OwnFileLines)].number - 1
        /\ CaseRecord.fault.details =
                [i \in 1..Len(OtherFileLines) |->
                    [file |-> OtherFileLines[i].file,
                     line |-> OtherFileLines[i].number - 1]]
        /\ \A i \in 1..Len(CaseRecord.fault.details) :
                CaseRecord.fault.details[i].file # CaseRecord.file

\* A message of two file:line lines, the second of the testcase's own file: the
\* record is at the second, the first is the only Detail kept.
C6_Witness ==
    /\ CaseParsed
    /\ HasTextFault
    /\ Len(FileLineLines) = 2
    /\ FileLineLines[1].file = FileG
    /\ FileLineLines[2].file = FileF
    /\ NominalFile = FileF
    /\ NominalLine = 12
    /\ CaseRecord.file = FileF
    /\ CaseRecord.line = 4
    /\ CaseRecord.fault.details = <<[file |-> FileG, line |-> 6]>>

AttrOrEmpty(node) == IF node.attrType = Undefined THEN <<>> ELSE node.attrType

\* C7: the fault of a testcase is taken from the first present of error,
\* warning, failure, (skipped or incomplete): warning gives type warning, failure
\* gives failure, skipped and incomplete give skipped with fault type "skipped"
\* and an empty message, and with none present the record is passed.
C7_FaultNodePriority ==
    CaseParsed =>
        /\ CaseNode.error # <<>> =>
            /\ CaseRecord.type \in {SKIPPED, INCOMPLETE, FAILED, ERROR}
            /\ CaseRecord.fault.type = AttrOrEmpty(CaseNode.error[1])
        /\ (CaseNode.error = <<>> /\ CaseNode.warning # <<>>) =>
            /\ CaseRecord.type = WARNING
            /\ CaseRecord.fault.type = AttrOrEmpty(CaseNode.warning[1])
        /\ (CaseNode.error = <<>> /\ CaseNode.warning = <<>>
                /\ CaseNode.failure # <<>>) =>
            /\ CaseRecord.type = FAILURE
            /\ CaseRecord.fault.type = AttrOrEmpty(CaseNode.failure[1])
        /\ (~HasTextFault /\ (CaseNode.skipped # <<>> \/ CaseNode.incomplete # <<>>)) =>
            /\ CaseRecord.type = SKIPPED
            /\ CaseRecord.fault.type = SKIPPED
            /\ CaseRecord.fault.message = <<>>
        /\ (~HasTextFault /\ CaseNode.skipped = <<>> /\ CaseNode.incomplete = <<>>) =>
            /\ CaseRecord.type = PASSED
            /\ "fault" \notin DOMAIN CaseRecord

\* A testcase with warning, failure, skipped and incomplete children, the
\* warning and the failure of different type attributes: the warning is taken.
C7_Witness ==
    /\ CaseParsed
    /\ CaseNode.error = <<>>
    /\ CaseNode.warning # <<>>
    /\ CaseNode.failure # <<>>
    /\ CaseNode.skipped # <<>>
    /\ CaseNode.incomplete # <<>>
    /\ CaseNode.warning[1].attrType # CaseNode.failure[1].attrType
    /\ CaseRecord.type = WARNING
    /\ CaseRecord.fault.type = AttrOrEmpty(CaseNode.warning[1])

\* The keyword occurs in the text, letter case ignored.
ContainsIgnoringCase(text, keyword) ==
    \E i \in 1..Len(text) :
        /\ i + Len(keyword) - 1 <= Len(text)
        /\ \A k \in 1..Len(keyword) : LowerChar(text[i + k - 1]) = keyword[k]

\* C8: the type of a record whose fault is an error element is decided by the
\* element's type attribute, letter case ignored: skipped if it contains
\* "skipped", else incomplete if it contains "incomplete", else failed if it
\* contains "failed", else error.
C8_ErrorTypePriority ==
    (CaseParsed /\ CaseNode.error # <<>>) =>
        LET type == CaseNode.error[1].attrType
        IN CaseRecord.type =
             IF ContainsIgnoringCase(type, SKIPPED) THEN SKIPPED
             ELSE IF ContainsIgnoringCase(type, INCOMPLETE) THEN INCOMPLETE
             ELSE IF ContainsIgnoringCase(type, FAILED) THEN FAILED
             ELSE ERROR

\* An error element of type "FailedSkipped": both keywords, in mixed case, the
\* lower priority one first; the record is skipped.
C8_Witness ==
    /\ CaseParsed
    /\ CaseNode.error # <<>>
    /\ CaseNode.error[1].attrType =
          <<"F", "a", "i", "l", "e", "d", "S", "k", "i", "p", "p", "e", "d">>
    /\ CaseRecord.type = SKIPPED

\* Every Detail kept in fault.details is a <file>:<L> line of the message, in
\* order, with line L - 1.
DetailLinesZeroBased ==
    "fault" \in DOMAIN CaseRecord =>
        /\ Len(CaseRecord.fault.details) =
                IF HasTextFault THEN Len(OtherFileLines) ELSE 0
        /\ \A i \in 1..Len(CaseRecord.fault.details) :
                /\ CaseRecord.fault.details[i].file = OtherFileLines[i].file
                /\ CaseRecord.fault.details[i].line = OtherFileLines[i].number - 1

\* C9 as stated: a testcase with line attribute L >= 1 is returned with line
\* L - 1, one without line attribute with line 0, and every Detail of a message
\* line ending in <file>:<L> has line L - 1.
C9_LineAttributeZeroBased ==
    CaseParsed =>
        /\ CaseRecord.line = NominalLine
        /\ DetailLinesZeroBased

\* C9 as amended: the same, unless the testcase is faulted and a Detail of its
\* message names the testcase's own file: then the record's line is that of the
\* last such Detail, L' - 1 for its <file>:<L'>.
C9_LineZeroBasedUnlessOverridden ==
    CaseParsed =>
        /\ (~HasTextFault \/ OwnFileLines = <<>>) => CaseRecord.line = NominalLine
        /\ (HasTextFault /\ OwnFileLines # <<>>) =>
                CaseRecord.line = OwnFileLines[Len(OwnFileLines)].number - 1
        /\ DetailLinesZeroBased

\* A faulted testcase of line attribute 13 whose message holds g:7 and no line
\* of its own file: line 12 and a Detail of line 6.
C9_Witness ==
    /\ CaseParsed
    /\ CaseNode.attr.line = <<"1", "3">>
    /\ HasTextFault
    /\ OwnFileLines = <<>>
    /\ CaseRecord.line = 12
    /\ CaseRecord.fault.details = <<[file |-> FileG, line |-> 6]>>

\* C10: a failed lookup fails the whole parse: the promise of parseString is
\* never fulfilled once a lookup has failed, whatever the other lookups do and
\* whenever; once Promise.all has seen the failure the promise is rejected, with
\* the failure of a lookup, that of the failed one when it is the only one; and
\* no lookup is issued twice.
C10_LookupFailureFailsParse ==
    /\ \A i \in 1..Len(tCalls) : tCalls[i] <= 1
    /\ (\E i \in 1..Len(tLookup) : tLookup[i].status = "rejected") =>
            tAll.status # "fulfilled"
    /\ \A i \in tSeen :
            tElem[i].status = "rejected" =>
                /\ tAll.status = "rejected"
                /\ tAll.reason \in tSeen
                /\ tLookup[tAll.reason].status = "rejected"
                /\ (\A j \in 1..Len(tLookup) :
                        tLookup[j].status = "rejected" => j = i) =>
                            tAll.reason = i

\* The first lookup failed and was seen, the second succeeded after it and was
\* seen too: the parse stays rejected with the first lookup's failure.
C10_Witness ==
    /\ tDone = <<1, 2>>
    /\ tLookup[1].status = "rejected"
    /\ tLookup[2].status = "resolved"
    /\ tSeen = {1, 2}
    /\ tAll = Rejected(1)

----------------------------------------------------------------------------
(* Properties of ParserFactory.create.                                      *)

\* The name is a string equal to the word, letter case ignored.
EqualsIgnoringCase(name, word) ==
    /\ name # Absent
    /\ Len(name) = Len(word)
    /\ \A k \in 1..Len(word) : LowerChar(name[k]) = word[k]

\* C11: ParserFactory.create returns a JUnitParser for a name equal to "junit"
\* and a TeamCityParser for a name equal to "teamcity", letter case ignored;
\* for every other name the call fails with an error and returns no object.
C11_CreateKnownOrFail ==
    fOut.status \notin {"off", "idle"} =>
        IF EqualsIgnoringCase(fName, JUNIT) THEN fOut = Returned("JUnitParser")
        ELSE IF EqualsIgnoringCase(fName, TEAMCITY)
        THEN fOut = Returned("TeamCityParser")
        ELSE fOut.status = "threw"

----------------------------------------------------------------------------
(* Properties of the non-passed records of TeamCityParser.                  *)

\* The record of group g is there: the group is testStarted, testFailed or
\* testIgnored, testFinished, and the map callback has returned for it.
FaultRecordAt(g) ==
    /\ g \in DOMAIN tElem
    /\ IsFaultGroup(tGroups[g])
    /\ tElem[g].status = "fulfilled"

\* C12: the lines TeamCityParser puts out are zero-based: a record that took
\* its location from its first Detail <file>:<L> has line L - 1, and every
\* Detail of fault.details is one of the segments <file>:<L> with line L - 1.
C12_TeamCityLinesZeroBased ==
    \A g \in 1..Len(tGroups) :
        FaultRecordAt(g) =>
            LET zero == ZeroBasedDetails(tGroups[g][2].details)
                record == tElem[g].value
            IN /\ zero # <<>> => record.line = zero[1].line
               /\ \A i \in 1..Len(record.fault.details) :
                    \E k \in 1..Len(zero) : record.fault.details[i] = zero[k]

\* C13: fault.details of a non-passed record holds no Detail of the file the
\* record ends up with, also when that file is the first Detail's and not
\* the location hint's.
C13_DetailsExcludeChosenFile ==
    \A g \in 1..Len(tGroups) :
        FaultRecordAt(g) =>
            \A i \in 1..Len(tElem[g].value.fault.details) :
                tElem[g].value.fault.details[i].file # tElem[g].value.file

\* The parts of a location hint: the hint without the scheme prefix, split
\* on "::".
HintSplit(hint) ==
    LET trimmed == trim(hint)
    IN split(IF OccursAt(trimmed, SchemePrefix, 1)
             THEN SubSeq(trimmed, Len(SchemePrefix) + 1, Len(trimmed))
             ELSE trimmed,
             <<":", ":">>)

\* A testStarted event of the stream whose hint is not of three parts.
MalformedHint ==
    \E k \in 1..Len(tStream) :
        /\ tStream[k].type = "testStarted"
        /\ Len(HintSplit(tStream[k].locationHint)) # 3

\* C14: a testStarted event whose location hint is not of exactly three parts
\* (file, class, name) makes the parse fail: parseString neither delivers a
\* result for such a stream nor produces a record without class or name.
C14_MalformedHintFailsParse ==
    /\ MalformedHint => tAll.status # "fulfilled"
    /\ \A g \in 1..Len(tElem) :
            tElem[g].status = "fulfilled" =>
                /\ tElem[g].value.name # Undefined
                /\ tElem[g].value.class # Undefined

----------------------------------------------------------------------------
(* Properties of the message of a faulted testcase of JUnitParser.          *)

\* The lines of a text, trimmed, the empty ones dropped.
TrimmedLines(text) ==
    LET lines == split(replaceAll(text, <<"\r", "\n">>, <<"\n">>), <<"\n">>)
    IN SelectSeq([i \in 1..Len(lines) |-> trim(lines[i])], LAMBDA l : l # <<>>)

\* C15: the message of a faulted testcase is the text of the fault node
\* without the lines that gave a Detail: the lines of fault.message are the
\* lines of the text that do not end in <file>:<digits>, unchanged and in
\* order, and no line that gave a Detail is left.
C15_DetailLinesStripped ==
    (CaseParsed /\ HasTextFault) =>
        TrimmedLines(CaseRecord.fault.message) =
            SelectSeq(TrimmedLines(FirstFaultChild.text),
                      LAMBDA l : ~EndsWithFileLine(l))

----------------------------------------------------------------------------
(* Properties of Filesystem.lineAt.                                         *)

\* C16: the promise lineAt(uri, k) returns is settled exactly once, whatever
\* 'line' events are delivered, also after the reader was closed: resolve or
\* reject is called at most once and never reject after resolve; for a file of
\* n lines and k < n the promise is pending until line k is delivered and from
\* then on resolved with the content of line k, and never rejected; for
\* k >= n it is pending until 'close' and from then on rejected.
C16_LineAtSettledOnce ==
    lPromise.status \notin {"off", "idle"} =>
        /\ Len(lSettles) <= 1
        /\ lPromise = IF lSettles = <<>> THEN Pending ELSE lSettles[1]
        /\ \A i, j \in 1..Len(lSettles) :
                i < j => ~(/\ lSettles[i].status = "fulfilled"
                           /\ lSettles[j].status = "rejected")
        /\ lNumber < Len(lLines) =>
                lPromise = IF lNext > lNumber
                           THEN Fulfilled(lLines[lNumber + 1]) ELSE Pending
        /\ lNumber >= Len(lLines) =>
                lPromise = IF lClosed THEN Rejected("") ELSE Pending

\* Line 1 of a file of three lines was asked for: the promise is resolved with
\* it, the reader was closed at it, and the third line was delivered after.
C16_Witness ==
    /\ lLines = <<"zero", "one", "two">>
    /\ lNumber = 1
    /\ lClosed
    /\ lNext = 3
    /\ lCurrent = 3
    /\ lSettles = <<Fulfilled("one")>>
    /\ lPromise = Fulfilled("one")

====
